---- MODULE Spec2Model ----
(***************************************************************************)
(* A model of the omegaUp-deploy test runner: problems.py (problem         *)
(* selection, error reporting, CI annotations) and runtests.py (the loop   *)
(* that runs every selected problem in the sandbox and validates its       *)
(* report).                                                                *)
(*                                                                         *)
(* Text is a sequence of tokens.  A token is one character where the code  *)
(* looks at characters ("%", "/", ".", "CR" for carriage return, "LF" for  *)
(* line feed) and an opaque run of other characters elsewhere.             *)
(***************************************************************************)
EXTENDS Integers, Sequences, FiniteSets, TLC

VARIABLES
    pc,               \* where the process is
    message,          \* ci_error: the message argument
    allProblems,      \* problems(): the allProblems argument (--all)
    problemPaths,     \* problems(): the problemPaths argument (PROBLEM ...)
    catalog,          \* the problems.json file under the root directory
    env,              \* os.environ, the three commit-range variables
    gitDiff,          \* what `git diff --name-only` prints for the range
    diffCalls,        \* the commit ranges `git diff` was called with
    result,           \* problems(): the returned list
    selected,         \* _main: the problems the loop iterates over
    plan,             \* what the sandbox does for each selected problem
    ci,               \* args.ci
    idx,              \* _main: number of problems the loop is done with
    t,                \* _main: number of test entries validated so far
    report,           \* _main: the parsed report of the current problem
    anyFailure,       \* _main: anyFailure
    errors,           \* calls of problems.error: message and location
    warnings,         \* logging.warning lines of _main
    annotations,      \* lines printed by ci_error: file and escaped text
    failureMessages,  \* _main: failureMessages of the latest test entry
    invoked,          \* paths `docker run` was called for
    validated,        \* the per-test-entry info lines (problem, index)
    exitStatus        \* the process exit status, -1 while running

vars == <<pc, message, allProblems, problemPaths, catalog, env, gitDiff,
          diffCalls, result, selected, plan, ci, idx, t, report, anyFailure,
          errors, warnings, annotations, failureMessages, invoked, validated,
          exitStatus>>

\* the arguments and the world the process runs in: nothing writes them
inputs == <<message, allProblems, problemPaths, catalog, env, gitDiff,
            selected, plan, ci>>

\* what problems() writes
selVars == <<result, diffCalls>>

\* what _main and ci_error write
runVars == <<idx, t, report, anyFailure, errors, warnings, annotations,
             failureMessages, invoked, validated, exitStatus>>

(***************************************************************************)
(* Bounds of the model.                                                    *)
(***************************************************************************)
MaxMsgLen == 3        \* longest ci_error message, in characters
MaxCatalog == 2       \* most entries of problems.json
MaxPaths == 2         \* most explicit problem paths
MaxProblems == 2      \* most selected problems in a run
MaxRunTests == 1      \* most test entries per report in a multi-problem run
MaxTests == 2         \* most test entries per report in a one-problem run

(***************************************************************************)
(* Text helpers: the str and os.path functions the code calls.             *)
(***************************************************************************)
RECURSIVE Replace(_, _, _)
\* str.replace(old, new) for a one-character old
Replace(s, old, new) ==
    IF s = <<>> THEN <<>>
    ELSE (IF Head(s) = old THEN new ELSE <<Head(s)>>)
         \o Replace(Tail(s), old, new)

RECURSIVE Join(_, _)
\* sep.join(parts)
Join(sep, parts) ==
    IF parts = <<>> THEN <<>>
    ELSE IF Len(parts) = 1 THEN parts[1]
    ELSE parts[1] \o sep \o Join(sep, Tail(parts))

\* the `in` operator of str: p occurs in s as a contiguous run
IsSubstring(p, s) ==
    \E i \in 0..(Len(s) - Len(p)) : SubSeq(s, i + 1, i + Len(p)) = p

\* str.endswith
EndsWith(s, suffix) ==
    /\ Len(suffix) <= Len(s)
    /\ SubSeq(s, Len(s) - Len(suffix) + 1, Len(s)) = suffix

\* the position of the last `c` in s, 0 if there is none (str.rfind + 1)
LastIndexOf(s, c) ==
    LET where == {i \in 1..Len(s) : s[i] = c}
    IN IF where = {} THEN 0
       ELSE CHOOSE i \in where : \A j \in where : j <= i

\* os.path.basename
Basename(path) == SubSeq(path, LastIndexOf(path, "/") + 1, Len(path))

\* os.path.join of two parts
PathJoin(a, b) ==
    IF a = <<>> THEN b
    ELSE IF a[Len(a)] = "/" THEN a \o b
    ELSE a \o <<"/">> \o b

\* os.path.splitext(name)[0]: cut at the last dot, unless only dots precede it
SplitExtRoot(name) ==
    LET dot == LastIndexOf(name, ".")
    IN IF dot = 0 \/ (\A i \in 1..dot : name[i] = ".") THEN name
       ELSE SubSeq(name, 1, dot - 1)

\* textwrap.indent(text, '    '): the prefix before every line with content
RECURSIVE IndentFrom(_, _)
IndentFrom(text, atLineStart) ==
    IF text = <<>> THEN <<>>
    ELSE IF Head(text) = "LF" THEN <<"LF">> \o IndentFrom(Tail(text), TRUE)
    ELSE (IF atLineStart THEN <<"    ">> ELSE <<>>)
         \o <<Head(text)>> \o IndentFrom(Tail(text), FALSE)

Indent(text) == IndentFrom(text, TRUE)

(***************************************************************************)
(* problems.py: ci_error, error.                                           *)
(***************************************************************************)
\* a faulty variant: the line breaks are escaped before the percent sign
EscapeLineBreaksFirst(msg) ==
    Replace(Replace(Replace(msg, "CR", <<"%", "0", "D">>),
                    "LF", <<"%", "0", "A">>),
            "%", <<"%", "2", "5">>)

\* message.replace('%', '%25').replace('\r', '%0D').replace('\n', '%0A')
Escape(msg) ==
    Replace(Replace(Replace(msg, "%", <<"%", "2", "5">>),
                    "CR", <<"%", "0", "D">>),
            "LF", <<"%", "0", "A">>)

NoFile == <<>>

\* the line ci_error prints: the location and the escaped message
CiErrorLine(msg, filename) == [file |-> filename, text |-> Escape(msg)]

\* what error() adds to the printed annotations
ErrorAnnotations(msg, filename, ciArg) ==
    IF ciArg THEN <<CiErrorLine(msg, filename)>> ELSE <<>>

(***************************************************************************)
(* problems.py: problems().                                                *)
(***************************************************************************)
Problem(path, title) == [path |-> path, title |-> title]

\* the slot of str.split('/') the code takes: [6], counted from 0
CircleSegment == 6

RECURSIVE SplitSlash(_, _)
\* str.split('/'): the list of the parts between the slashes
SplitSlash(s, part) ==
    IF s = <<>> THEN <<part>>
    ELSE IF Head(s) = "/" THEN <<part>> \o SplitSlash(Tail(s), <<>>)
    ELSE SplitSlash(Tail(s), part \o <<Head(s)>>)

\* the commit range handed to git diff (an unset variable is the empty text)
CommitRange(e) ==
    IF e.TRAVIS_COMMIT_RANGE # <<>> THEN e.TRAVIS_COMMIT_RANGE
    ELSE IF e.CIRCLE_COMPARE_URL # <<>>
        THEN SplitSlash(e.CIRCLE_COMPARE_URL, <<>>)[CircleSegment + 1]
    ELSE IF e.GITHUB_BASE_COMMIT # <<>>
        THEN e.GITHUB_BASE_COMMIT \o <<"...HEAD">>
    ELSE <<"origin/master...HEAD">>

\* a faulty variant: disabled entries are kept
ConfigProblemsKeepDisabled(entries) ==
    [i \in 1..Len(entries) |-> Problem(entries[i].path, entries[i].title)]

RECURSIVE ConfigProblems(_)
\* the loop over config['problems']: disabled entries are dropped
ConfigProblems(entries) ==
    IF entries = <<>> THEN <<>>
    ELSE IF Head(entries).disabled THEN ConfigProblems(Tail(entries))
    ELSE <<Problem(Head(entries).path, Head(entries).title)>>
         \o ConfigProblems(Tail(entries))

\* a faulty variant: the path must start the output of git diff
PathChangedAtStart(path, changes) ==
    Len(path) <= Len(changes) /\ SubSeq(changes, 1, Len(path)) = path

\* the test of the loop over configProblems: problem.path in changes
PathChanged(path, changes) == IsSubstring(path, changes)

RECURSIVE ChangedProblems(_, _)
\* the loop over configProblems: those whose path occurs in the changes
ChangedProblems(config, changes) ==
    IF config = <<>> THEN <<>>
    ELSE IF ~PathChanged(Head(config).path, changes)
        THEN ChangedProblems(Tail(config), changes)
    ELSE <<Head(config)>> \o ChangedProblems(Tail(config), changes)

\* the list made from the explicit paths
ExplicitProblems(paths) ==
    [i \in 1..Len(paths) |-> Problem(paths[i], Basename(paths[i]))]

\* open() or json.load() or config['problems'] raises: the call ends in an
\* exception, whatever the arguments are
ProblemsRaises ==
    /\ pc = "problems"
    /\ catalog.status # "ok"
    /\ pc' = "raised"
    /\ UNCHANGED <<result, diffCalls>>
    /\ UNCHANGED <<inputs, runVars>>

\* git diff exits non-zero and check_output raises
ProblemsDiffFails ==
    /\ pc = "problems"
    /\ catalog.status = "ok"
    /\ problemPaths = <<>>
    /\ ~allProblems
    /\ ~gitDiff.ok
    /\ diffCalls' = Append(diffCalls, CommitRange(env))
    /\ pc' = "raised"
    /\ UNCHANGED result
    /\ UNCHANGED <<inputs, runVars>>

\* return of the list made from problemPaths
ProblemsExplicit ==
    /\ pc = "problems"
    /\ catalog.status = "ok"
    /\ problemPaths # <<>>
    /\ result' = ExplicitProblems(problemPaths)
    /\ pc' = "returned"
    /\ UNCHANGED diffCalls
    /\ UNCHANGED <<inputs, runVars>>

\* return of configProblems
ProblemsAll ==
    /\ pc = "problems"
    /\ catalog.status = "ok"
    /\ problemPaths = <<>>
    /\ allProblems
    /\ result' = ConfigProblems(catalog.problems)
    /\ pc' = "returned"
    /\ UNCHANGED diffCalls
    /\ UNCHANGED <<inputs, runVars>>

\* git diff is run and the catalog problems are filtered by its output
ProblemsChanged ==
    /\ pc = "problems"
    /\ catalog.status = "ok"
    /\ problemPaths = <<>>
    /\ ~allProblems
    /\ gitDiff.ok
    /\ diffCalls' = Append(diffCalls, CommitRange(env))
    /\ result' = ChangedProblems(ConfigProblems(catalog.problems),
                                 gitDiff.out)
    /\ pc' = "returned"
    /\ UNCHANGED <<inputs, runVars>>

(***************************************************************************)
(* runtests.py: the score check.  A score is a decimal number: its whole   *)
(* part and the digits after the decimal point.                            *)
(***************************************************************************)
ScoreDigits == 17     \* digits kept after the decimal point of a score

\* the second argument of round()
Places == 15

\* "* 100" moves the decimal point by two digits
PercentDigits == 2

Zeros(n) == [i \in 1..n |-> 0]

RECURSIVE Increment(_)
\* adds one unit in the last place: the new digits and the carry out
Increment(digits) ==
    IF digits = <<>> THEN [digits |-> <<>>, carry |-> 1]
    ELSE LET n == Len(digits) IN
         IF digits[n] < 9
         THEN [digits |-> [digits EXCEPT ![n] = digits[n] + 1], carry |-> 0]
         ELSE LET rest == Increment(SubSeq(digits, 1, n - 1))
              IN [digits |-> Append(rest.digits, 0), carry |-> rest.carry]

\* round(score, 15) of a Decimal: to the nearest, a tie to the even digit
Round(score, places) ==
    LET kept == SubSeq(score.frac, 1, places)
        rest == SubSeq(score.frac, places + 1, Len(score.frac))
        tail == \E i \in 2..Len(rest) : rest[i] # 0
        last == IF places = 0 THEN score.whole ELSE kept[places]
        up == /\ rest # <<>>
              /\ \/ rest[1] > 5
                 \/ rest[1] = 5 /\ tail
                 \/ rest[1] = 5 /\ ~tail /\ last % 2 = 1
        inc == Increment(kept)
    IN IF up THEN [whole |-> score.whole + inc.carry, frac |-> inc.digits]
       ELSE [whole |-> score.whole, frac |-> kept]

\* a faulty variant: the score is cut after 15 digits instead of rounded
ScaledScoreTruncated(score) ==
    [whole |-> score.whole * 100 + score.frac[1] * 10 + score.frac[2],
     frac |-> SubSeq(score.frac, PercentDigits + 1, Places)]

\* scaledScore = round(normalizedScore, 15) * 100
ScaledScore(score) ==
    LET r == Round(score, Places)
    IN [whole |-> r.whole * 100 + r.frac[1] * 10 + r.frac[2],
        frac |-> SubSeq(r.frac, PercentDigits + 1, Places)]

\* int(d): the digits after the decimal point are dropped
IntOf(d) == [whole |-> d.whole, frac |-> Zeros(Len(d.frac))]

\* scaledScore != int(scaledScore)
ScoreNotInteger(score) == ScaledScore(score) # IntOf(ScaledScore(score))

\* f'Score isn\'t an integer! Got: {scaledScore}\n'
ScoreMessage ==
    <<"Score isn't an integer! Got: ", "{scaledScore}", "LF">>

(***************************************************************************)
(* runtests.py: the validation of one test entry.                          *)
(*                                                                         *)
(* A test entry is [type, filename, state, score, groups, logs]: the       *)
(* fields of the report's entry that the code reads, and `logs`, the       *)
(* entry's logs directory on disk: whether it exists and the names in it.  *)
(* The entry's index is its place in the report.                           *)
(***************************************************************************)
SettingsFile(p) == PathJoin(p.path, <<"settings.json">>)

\* testedFile
TestedFile(p, e) == PathJoin(PathJoin(p.path, <<"tests">>), e.filename)

\* str(testResult['index']) for the entry at place i of the report
IndexText(i) == <<"0", "1", "2", "3", "4">>[i]

\* logsDirectory, below the results directory
LogsDirectory(p, e, i) ==
    IF e.type = "solutions"
    THEN PathJoin(p.path, <<IndexText(i)>>)
    ELSE PathJoin(PathJoin(p.path, <<IndexText(i)>>), <<"validator">>)

\* a faulty variant: every case of the entry counts as failed
FailedCasesAll(e) ==
    UNION {{e.groups[g][c].name : c \in DOMAIN e.groups[g]} :
            g \in DOMAIN e.groups}

\* failedCases: the names of the cases whose verdict is not AC
FailedCases(e) ==
    UNION {{e.groups[g][c].name :
                c \in {c \in DOMAIN e.groups[g] :
                          e.groups[g][c].verdict # "AC"}} :
            g \in DOMAIN e.groups}

\* the names a logs directory can hold, in the order sorted() gives them
FileOrder ==
    << <<".", "err">>, <<"c1", ".", "err">>, <<"c1", ".", "out">>,
       <<"c2", ".", "err">>, <<"c3", ".", "err">> >>

\* sorted(os.listdir(logsDirectory))
SortedListing(files) == SelectSeq(FileOrder, LAMBDA f : f \in files)

\* out.read(): what the sandbox wrote to the artifact
Content(name) == <<"stderr of ">> \o name \o <<"LF", "at 50", "%", "LF">>

\* f"{stderrFilename}:\n{textwrap.indent(out.read(), '    ')}"
ArtifactMessage(name) == name \o <<":", "LF">> \o Indent(Content(name))

\* failureMessages[file].append(msg) on a defaultdict(list); the mapping is
\* the sequence of its items in insertion order
AppendMessage(fm, file, msg) ==
    IF \E i \in DOMAIN fm : fm[i].file = file
    THEN [i \in DOMAIN fm |->
            IF fm[i].file = file
            THEN [fm[i] EXCEPT !.messages = Append(@, msg)]
            ELSE fm[i]]
    ELSE Append(fm, [file |-> file, messages |-> <<msg>>])

\* associatedFile
AssociatedFile(p, e, caseName) ==
    IF e.type = "solutions" THEN TestedFile(p, e)
    ELSE PathJoin(PathJoin(p.path, <<"cases">>), caseName \o <<".", "in">>)

RECURSIVE ArtifactMessages(_, _, _, _)
\* the loop over the sorted listing of the logs directory
ArtifactMessages(fm, listing, p, e) ==
    IF listing = <<>> THEN fm
    ELSE LET stderrFilename == Head(listing)
             caseName == SplitExtRoot(stderrFilename)
         IN IF ~EndsWith(stderrFilename, <<".", "err">>)
            THEN ArtifactMessages(fm, Tail(listing), p, e)
            ELSE IF caseName \notin FailedCases(e)
            THEN ArtifactMessages(fm, Tail(listing), p, e)
            ELSE ArtifactMessages(
                    AppendMessage(fm, AssociatedFile(p, e, caseName),
                                  ArtifactMessage(stderrFilename)),
                    Tail(listing), p, e)

\* failureMessages at the end of the iteration for test entry e
EntryMessages(p, e) ==
    LET scored == IF ScoreNotInteger(e.score)
                  THEN AppendMessage(<<>>, TestedFile(p, e), ScoreMessage)
                  ELSE <<>>
    IN IF e.state # "passed" /\ e.logs.exists
       THEN ArtifactMessages(scored, SortedListing(e.logs.files), p, e)
       ELSE scored

\* a faulty variant: one annotation per message
CiAnnotationsPerMessage(fm) ==
    IF fm = <<>> THEN <<>>
    ELSE [i \in 1..Len(fm[1].messages) |->
            CiErrorLine(fm[1].messages[i], fm[1].file)]

\* the ci_error calls of the loop over failureMessages.items()
CiAnnotations(fm) ==
    [i \in DOMAIN fm |->
        CiErrorLine(Join(<<"LF">>, fm[i].messages), fm[i].file)]

(***************************************************************************)
(* runtests.py: the loop of _main over the selected problems.              *)
(*                                                                         *)
(* plan[i] is what `docker run` does for selected[i]: its return code,     *)
(* whether its stdout parses as JSON, and the report it prints.            *)
(***************************************************************************)
EmptyReport == [state |-> "passed", tests |-> <<>>]

\* a faulty variant: only the state "failed" sets the flag
ReportFailedOnlyFailed(state) == state = "failed"

\* report['state'] != 'passed'
ReportFailed(state) == state # "passed"

\* a faulty variant: a skipped report is validated like any other
ReportSkippedNever(state) == FALSE

\* report['state'] == 'skipped'
ReportSkipped(state) == state = "skipped"

Current == selected[idx + 1]

Outcome == plan[idx + 1]

Running == pc = "loop" /\ idx < Len(selected)

\* docker run returns non-zero: the error, the flag, the next problem
RunFailed ==
    /\ Running
    /\ Outcome.rc # 0
    /\ invoked' = Append(invoked, Current.path)
    /\ errors' = Append(errors, [message |-> <<"Failed to run ", Current.title>>,
                                 filename |-> SettingsFile(Current)])
    /\ annotations' = annotations \o
            ErrorAnnotations(<<"Failed to run ", Current.title>>,
                             SettingsFile(Current), FALSE)
    /\ anyFailure' = TRUE
    /\ idx' = idx + 1
    /\ UNCHANGED <<pc, t, report, warnings, failureMessages, validated,
                   exitStatus>>
    /\ UNCHANGED <<inputs, selVars>>

\* json.loads raises on the stdout of the run: the exception is caught
\* nowhere, the interpreter prints it and exits with status 1
RunMalformed ==
    /\ Running
    /\ Outcome.rc = 0
    /\ ~Outcome.json
    /\ invoked' = Append(invoked, Current.path)
    /\ pc' = "exited"
    /\ exitStatus' = 1
    /\ UNCHANGED <<idx, t, report, anyFailure, errors, warnings, annotations,
                   failureMessages, validated>>
    /\ UNCHANGED <<inputs, selVars>>

\* the report says skipped: the flag, the error, the next problem
RunSkipped ==
    /\ Running
    /\ Outcome.rc = 0
    /\ Outcome.json
    /\ ReportSkipped(Outcome.report.state)
    /\ invoked' = Append(invoked, Current.path)
    /\ report' = Outcome.report
    /\ anyFailure' = (anyFailure \/ ReportFailed(Outcome.report.state))
    /\ errors' = Append(errors, [message |-> <<"Skipped ", Current.title>>,
                                 filename |-> SettingsFile(Current)])
    /\ annotations' = annotations \o
            ErrorAnnotations(<<"Skipped ", Current.title>>,
                             SettingsFile(Current), FALSE)
    /\ idx' = idx + 1
    /\ UNCHANGED <<pc, t, warnings, failureMessages, validated, exitStatus>>
    /\ UNCHANGED <<inputs, selVars>>

\* any other report: the flag, then the loop over its test entries
RunReport ==
    /\ Running
    /\ Outcome.rc = 0
    /\ Outcome.json
    /\ ~ReportSkipped(Outcome.report.state)
    /\ invoked' = Append(invoked, Current.path)
    /\ report' = Outcome.report
    /\ anyFailure' = (anyFailure \/ ReportFailed(Outcome.report.state))
    /\ t' = 0
    /\ pc' = "tests"
    /\ UNCHANGED <<idx, errors, warnings, annotations, failureMessages,
                   validated, exitStatus>>
    /\ UNCHANGED <<inputs, selVars>>

\* one iteration of the loop over report['tests']
ValidateTest ==
    /\ pc = "tests"
    /\ t < Len(report.tests)
    /\ LET e == report.tests[t + 1]
           fm == EntryMessages(Current, e)
       IN /\ validated' = Append(validated,
                                 [problem |-> Current.path, index |-> t + 1])
          /\ anyFailure' = (anyFailure \/ ScoreNotInteger(e.score))
          /\ warnings' = IF e.state # "passed" /\ ~e.logs.exists
                         THEN Append(warnings, LogsDirectory(Current, e, t + 1))
                         ELSE warnings
          /\ failureMessages' = fm
          /\ annotations' = IF ci THEN annotations \o CiAnnotations(fm)
                            ELSE annotations
    /\ t' = t + 1
    /\ UNCHANGED <<pc, idx, report, errors, invoked, exitStatus>>
    /\ UNCHANGED <<inputs, selVars>>

\* the test entries are exhausted: the results are logged, the next problem
ProblemDone ==
    /\ pc = "tests"
    /\ t = Len(report.tests)
    /\ idx' = idx + 1
    /\ pc' = "loop"
    /\ UNCHANGED <<t, report, anyFailure, errors, warnings, annotations,
                   failureMessages, invoked, validated, exitStatus>>
    /\ UNCHANGED <<inputs, selVars>>

\* the problems are exhausted: sys.exit(1) if anyFailure, else the end
Exit ==
    /\ pc = "loop"
    /\ idx = Len(selected)
    /\ exitStatus' = IF anyFailure THEN 1 ELSE 0
    /\ pc' = "exited"
    /\ UNCHANGED <<idx, t, report, anyFailure, errors, warnings, annotations,
                   failureMessages, invoked, validated>>
    /\ UNCHANGED <<inputs, selVars>>

\* ci_error(message) with no location
CiError ==
    /\ pc = "ci_error"
    /\ annotations' = Append(annotations, CiErrorLine(message, NoFile))
    /\ pc' = "printed"
    /\ UNCHANGED <<idx, t, report, anyFailure, errors, warnings,
                   failureMessages, invoked, validated, exitStatus>>
    /\ UNCHANGED <<inputs, selVars>>

(***************************************************************************)
(* The inputs the runs are checked on.                                     *)
(***************************************************************************)
SeqsUpTo(S, n) == UNION {[1..k -> S] : k \in 0..n}

\* scores: digits after the decimal point, padded with zeros
Frac(digits) == digits \o Zeros(ScoreDigits - Len(digits))

Nines(n) == [i \in 1..n |-> 9]

Threes(n) == [i \in 1..n |-> 3]

One == [whole |-> 1, frac |-> Frac(<<>>)]                 \* 1.0
Half == [whole |-> 0, frac |-> Frac(<<5>>)]               \* 0.5
Third == [whole |-> 0, frac |-> Frac(Threes(14) \o <<5>>)]
                                                      \* 0.333333333333335
AlmostOne == [whole |-> 0, frac |-> Frac(Nines(16) \o <<6>>)]
                                                      \* 0.99999999999999996
JustOverOne == [whole |-> 1, frac |-> Frac(Zeros(15) \o <<4, 4>>)]
                                                      \* 1.00000000000000044
TieDown == [whole |-> 0, frac |-> Frac(<<1, 2>> \o Zeros(13) \o <<5>>)]
                                                      \* 0.1200000000000000|5
TieUp == [whole |-> 0, frac |-> Frac(<<1, 1>> \o Nines(13) \o <<5>>)]
                                                      \* 0.1199999999999999|5
OffByOne == [whole |-> 0, frac |-> Frac(<<1, 2>> \o Zeros(12) \o <<1, 4>>)]
                                                      \* 0.1200000000000014

Scores == {One, Half, Third, AlmostOne, JustOverOne, TieDown, TieUp, OffByOne}

Case(name, verdict) == [name |-> <<name>>, verdict |-> verdict]

\* c1 is accepted in one group and not in another, c2 fails, c3 passes
MixedGroups ==
    << <<Case("c1", "AC"), Case("c3", "AC")>>,
       <<Case("c1", "WA"), Case("c2", "RTE")>> >>

AcceptedGroups == << <<Case("c1", "AC"), Case("c2", "AC")>> >>

NoLogs == [exists |-> FALSE, files |-> {}]

FullLogs ==
    [exists |-> TRUE,
     files |-> {<<"c1", ".", "err">>, <<"c1", ".", "out">>,
                <<"c2", ".", "err">>, <<"c3", ".", "err">>}]

OddLogs ==
    [exists |-> TRUE, files |-> {<<".", "err">>, <<"c3", ".", "err">>}]

Entry(type, filename, state, score, groups, logs) ==
    [type |-> type, filename |-> <<filename>>, state |-> state,
     score |-> score, groups |-> groups, logs |-> logs]

\* the test entries of the reports of a one-problem run
TestEntries ==
    {Entry("solutions", "sol.cpp", "passed", s, AcceptedGroups, NoLogs) :
        s \in Scores}
    \cup {Entry("validator", "validator.cpp", "passed", s, AcceptedGroups,
                FullLogs) : s \in {One, Third}}
    \cup {Entry(ty[1], ty[2], "failed", One, g, l) :
            ty \in {<<"solutions", "sol.cpp">>,
                    <<"validator", "validator.cpp">>},
            g \in {MixedGroups, AcceptedGroups},
            l \in {NoLogs, FullLogs, OddLogs}}
    \cup {Entry(ty[1], ty[2], "failed", Third, MixedGroups, FullLogs) :
            ty \in {<<"solutions", "sol.cpp">>,
                    <<"validator", "validator.cpp">>}}

\* the test entries of the reports of a run over several problems
RunEntries ==
    {Entry("solutions", "sol.cpp", "passed", One, AcceptedGroups, NoLogs),
     Entry("solutions", "sol.cpp", "passed", Third, AcceptedGroups, NoLogs)}

Reports(entries, n) ==
    [state : {"passed", "failed", "skipped"}, tests : SeqsUpTo(entries, n)]

\* what a run of the sandbox can end in
Outcomes(entries, n) ==
    {[rc |-> 1, json |-> TRUE, report |-> EmptyReport],
     [rc |-> 0, json |-> FALSE, report |-> EmptyReport]}
    \cup [rc : {0}, json : {TRUE}, report : Reports(entries, n)]

ProblemNames == <<"p1", "p2", "p3", "p4">>

\* the selected problems: distinct directories, none inside another
RunProblems(n) ==
    [i \in 1..n |-> Problem(<<"problems", "/", ProblemNames[i]>>,
                            <<ProblemNames[i]>>)]

CatalogEntries ==
    [path : {<<"a">>, <<"a", "/", "b">>, <<"c">>},
     title : {<<"Title">>},
     disabled : BOOLEAN]

Catalogs ==
    {[status |-> "missing", problems |-> <<>>],
     [status |-> "malformed", problems |-> <<>>]}
    \cup [status : {"ok"}, problems : SeqsUpTo(CatalogEntries, MaxCatalog)]

ExplicitPaths == {<<"a", "/", "b">>, <<"c", "/">>}

GitDiffs ==
    {[ok |-> FALSE, out |-> <<>>],
     [ok |-> TRUE, out |-> <<>>],
     [ok |-> TRUE, out |-> <<"a", "/", "b", "/", "f", "LF">>],
     [ok |-> TRUE, out |-> <<"x", "a", "/", "f", "LF", "c", "/", "g", "LF">>]}

Env(travis, circle, github) ==
    [TRAVIS_COMMIT_RANGE |-> travis, CIRCLE_COMPARE_URL |-> circle,
     GITHUB_BASE_COMMIT |-> github]

CompareUrl ==
    <<"https:", "/", "/", "github.com", "/", "o", "/", "r", "/", "compare",
      "/", "abc...def">>

Envs ==
    {Env(<<>>, <<>>, <<>>),
     Env(<<"t1...t2">>, CompareUrl, <<>>),
     Env(<<>>, CompareUrl, <<"base">>),
     Env(<<>>, <<>>, <<"base">>)}

Alphabet == {"%", "CR", "LF", "2", "5", "0", "A", "D"}

(***************************************************************************)
(* The specifications.                                                     *)
(***************************************************************************)
\* the values of what a specification does not use
Idle ==
    /\ allProblems = FALSE
    /\ problemPaths = <<>>
    /\ catalog = [status |-> "ok", problems |-> <<>>]
    /\ env = Env(<<>>, <<>>, <<>>)
    /\ gitDiff = [ok |-> TRUE, out |-> <<>>]

Fresh ==
    /\ diffCalls = <<>>
    /\ result = <<>>
    /\ idx = 0
    /\ t = 0
    /\ report = EmptyReport
    /\ anyFailure = FALSE
    /\ errors = <<>>
    /\ warnings = <<>>
    /\ annotations = <<>>
    /\ failureMessages = <<>>
    /\ invoked = <<>>
    /\ validated = <<>>
    /\ exitStatus = -1

NextRun ==
    \/ RunFailed
    \/ RunMalformed
    \/ RunSkipped
    \/ RunReport
    \/ ValidateTest
    \/ ProblemDone
    \/ Exit

\* _main over up to MaxProblems problems
Init ==
    /\ Idle
    /\ Fresh
    /\ message = <<>>
    /\ pc = "loop"
    /\ ci \in BOOLEAN
    /\ \E n \in 0..MaxProblems :
        /\ selected = RunProblems(n)
        /\ plan \in [1..n -> Outcomes(RunEntries, MaxRunTests)]

Next == NextRun

Spec == Init /\ [][Next]_vars

\* _main over one problem, with every kind of test entry
InitValidate ==
    /\ Idle
    /\ Fresh
    /\ message = <<>>
    /\ pc = "loop"
    /\ ci \in BOOLEAN
    /\ selected = RunProblems(1)
    /\ plan \in [1..1 -> Outcomes(TestEntries, MaxTests)]

SpecValidate == InitValidate /\ [][NextRun]_vars

\* problems()
InitSelect ==
    /\ Fresh
    /\ message = <<>>
    /\ selected = <<>>
    /\ plan = <<>>
    /\ ci = FALSE
    /\ pc = "problems"
    /\ allProblems \in BOOLEAN
    /\ problemPaths \in SeqsUpTo(ExplicitPaths, MaxPaths)
    /\ catalog \in Catalogs
    /\ env \in Envs
    /\ gitDiff \in GitDiffs

NextSelect ==
    \/ ProblemsRaises
    \/ ProblemsDiffFails
    \/ ProblemsExplicit
    \/ ProblemsAll
    \/ ProblemsChanged

SpecSelect == InitSelect /\ [][NextSelect]_vars

\* ci_error()
InitEscape ==
    /\ Idle
    /\ Fresh
    /\ selected = <<>>
    /\ plan = <<>>
    /\ ci = TRUE
    /\ pc = "ci_error"
    /\ message \in SeqsUpTo(Alphabet, MaxMsgLen)

NextEscape == CiError

SpecEscape == InitEscape /\ [][NextEscape]_vars

(***************************************************************************)
(* Exit status and the aggregate flag.                                     *)
(***************************************************************************)
\* round(score, 15) * 100 is whole exactly when the score lies within
\* 5 * 10^-16 of a multiple of 0.01 (a tie goes to the multiple, whose 15th
\* digit is even)
ScaledIsWhole(score) ==
    LET mid == SubSeq(score.frac, PercentDigits + 1, Places)
        rest == SubSeq(score.frac, Places + 1, Len(score.frac))
        restZero == \A i \in 2..Len(rest) : rest[i] = 0
    IN \/ /\ \A i \in DOMAIN mid : mid[i] = 0
          /\ rest[1] < 5 \/ (rest[1] = 5 /\ restZero)
       \/ /\ \A i \in DOMAIN mid : mid[i] = 9
          /\ rest[1] >= 5

\* the outcome sets the flag: a non-zero exit, a report that did not pass,
\* or a validated test entry with a fractional scaled score
OutcomeFlagged(o) ==
    \/ o.rc # 0
    \/ /\ o.rc = 0
       /\ o.json
       /\ \/ o.report.state # "passed"
          \/ /\ o.report.state # "skipped"
             /\ \E j \in DOMAIN o.report.tests :
                    ~ScaledIsWhole(o.report.tests[j].score)

\* the outcome is not a clean validation
OutcomeFailed(o) == OutcomeFlagged(o) \/ (o.rc = 0 /\ ~o.json)

\* the flag is the OR over what the loop has handled so far
FlagIsOr ==
    anyFailure =
        (\/ \E i \in 1..idx : OutcomeFlagged(plan[i])
         \/ /\ pc = "tests"
            /\ \/ report.state # "passed"
               \/ \E j \in 1..t : ~ScaledIsWhole(report.tests[j].score))

\* C1: once the process has exited its status is 1 if some selected problem
\* failed, was skipped, had a non-zero sandbox exit (or a report that does
\* not parse), and 0 otherwise, whatever the order of the problems; the flag
\* is the OR of the outcomes handled so far and is never reset.
C1_ExitStatus ==
    /\ [](/\ FlagIsOr
          /\ pc = "exited" =>
                exitStatus = IF \E i \in DOMAIN plan : OutcomeFailed(plan[i])
                             THEN 1 ELSE 0)
    /\ [][anyFailure => anyFailure']_vars

C1_Witness ==
    /\ pc = "exited"
    /\ exitStatus = 1
    /\ Len(selected) = 2
    /\ ~OutcomeFailed(plan[1])
    /\ plan[1].report.tests # <<>>
    /\ plan[2].rc = 0 /\ plan[2].json /\ plan[2].report.state = "passed"
    /\ OutcomeFailed(plan[2])

\* a problem ends in an error that is not fatal
NonFatalError(o) ==
    \/ o.rc # 0
    \/ o.rc = 0 /\ ~o.json
    \/ o.rc = 0 /\ o.json /\ o.report.state = "skipped"
    \/ /\ o.rc = 0 /\ o.json /\ o.report.state # "skipped"
       /\ \E j \in DOMAIN o.report.tests :
            /\ o.report.tests[j].state # "passed"
            /\ ~o.report.tests[j].logs.exists

\* C2: when a problem ends in a non-fatal error (non-zero exit, skipped
\* report, malformed report JSON, missing logs directory), every later
\* problem is still invoked before the process exits.
C2_IterationContinues ==
    pc = "exited" =>
        \A i \in 1..Len(invoked) :
            NonFatalError(plan[i]) => Len(invoked) = Len(selected)

(***************************************************************************)
(* The validation of a report.                                             *)
(***************************************************************************)
\* the test entry the loop validated last, and its problem
Validating == pc = "tests" /\ t >= 1

LastEntry == report.tests[t]

\* the messages recorded for a file by the last test entry
MessagesFor(file) ==
    UNION {{failureMessages[i].messages[k] :
                k \in DOMAIN failureMessages[i].messages} :
            i \in {i \in DOMAIN failureMessages :
                      failureMessages[i].file = file}}

AllMessages ==
    UNION {{failureMessages[i].messages[k] :
                k \in DOMAIN failureMessages[i].messages} :
            i \in DOMAIN failureMessages}

\* C3: for every validated test entry, a fractional round(score, 15) * 100
\* sets the failure flag and records the "Score isn't an integer" message
\* for the tested file, whatever the states and verdicts are; a whole scaled
\* score records no such message.
C3_ScorePrecision ==
    Validating =>
        IF ScaledIsWhole(LastEntry.score)
        THEN ScoreMessage \notin AllMessages
        ELSE /\ anyFailure
             /\ ScoreMessage \in
                    MessagesFor(Current.path \o <<"/", "tests", "/">>
                                \o LastEntry.filename)

C3_Witness ==
    /\ Validating
    /\ report.state = "passed"
    /\ LastEntry.state = "passed"
    /\ LastEntry.groups = AcceptedGroups
    /\ LastEntry.score = Third
    /\ anyFailure
    /\ ScoreMessage \in AllMessages

\* C4: a skipped report produces exactly one error, located at the
\* problem's settings.json, sets the failure flag, and no test entry of it
\* is validated: no info line, no message, no annotation.
C4_SkipShortCircuit ==
    \A i \in 1..Len(invoked) :
        (plan[i].rc = 0 /\ plan[i].json /\ plan[i].report.state = "skipped")
        => /\ idx >= i
           /\ anyFailure
           /\ Cardinality({k \in DOMAIN errors :
                errors[k].filename =
                    selected[i].path \o <<"/", "settings.json">>}) = 1
           /\ \A k \in DOMAIN validated :
                validated[k].problem # selected[i].path
           /\ \A k \in DOMAIN annotations :
                ~IsSubstring(selected[i].path, annotations[k].file)
           /\ Len(selected) = 1 =>
                failureMessages = <<>> /\ Len(errors) = 1 /\ t = 0

C4_Witness ==
    /\ pc = "exited"
    /\ ci
    /\ plan[1].rc = 0 /\ plan[1].json /\ plan[1].report.state = "skipped"
    /\ Len(plan[1].report.tests) = 2
    /\ plan[1].report.tests[1].score = Third
    /\ plan[1].report.tests[2].state = "failed"
    /\ Len(errors) = 1
    /\ exitStatus = 1

\* the names of the cases with a verdict other than AC in some group
NonAcceptedNames(e) ==
    {name \in {<<"c1">>, <<"c2">>, <<"c3">>} :
        \E g \in DOMAIN e.groups : \E c \in DOMAIN e.groups[g] :
            /\ e.groups[g][c].name = name
            /\ e.groups[g][c].verdict # "AC"}

\* C5: for a test entry that did not pass, a file of its logs directory
\* contributes its content to the failure messages iff it is <case>.err for
\* a case with a verdict other than AC in some group; the message goes to the
\* tested file (solutions) or to <problem>/cases/<case>.in (validator), and
\* nothing else contributes an artifact message.
C5_ArtifactCorrelation ==
    (Validating /\ LastEntry.state # "passed") =>
        /\ \A f \in LastEntry.logs.files :
            LET failed == {c \in NonAcceptedNames(LastEntry) :
                              f = c \o <<".", "err">>}
            IN IF failed = {}
               THEN ArtifactMessage(f) \notin AllMessages
               ELSE \A c \in failed :
                    LET target ==
                        IF LastEntry.type = "solutions"
                        THEN Current.path \o <<"/", "tests", "/">>
                             \o LastEntry.filename
                        ELSE Current.path \o <<"/", "cases", "/">>
                             \o c \o <<".", "in">>
                    IN \A i \in DOMAIN failureMessages :
                        (\E k \in DOMAIN failureMessages[i].messages :
                            failureMessages[i].messages[k] = ArtifactMessage(f))
                        <=> failureMessages[i].file = target
        /\ \A m \in AllMessages :
            \/ m = ScoreMessage
            \/ \E f \in LastEntry.logs.files : m = ArtifactMessage(f)

C5_Witness ==
    /\ Validating
    /\ LastEntry.type = "validator"
    /\ LastEntry.state = "failed"
    /\ LastEntry.groups = MixedGroups
    /\ LastEntry.logs = FullLogs
    /\ ArtifactMessage(<<"c1", ".", "err">>) \in
            MessagesFor(Current.path \o <<"/", "cases", "/", "c1", ".", "in">>)
    /\ ArtifactMessage(<<"c2", ".", "err">>) \in
            MessagesFor(Current.path \o <<"/", "cases", "/", "c2", ".", "in">>)
    /\ ArtifactMessage(<<"c3", ".", "err">>) \notin AllMessages

(***************************************************************************)
(* Problem selection.                                                      *)
(***************************************************************************)
\* the text after the last slash of a path
FinalSegment(path) ==
    CHOOSE seg \in {SubSeq(path, i, Len(path)) : i \in 1..(Len(path) + 1)} :
        /\ \A k \in DOMAIN seg : seg[k] # "/"
        /\ \A other \in {SubSeq(path, i, Len(path)) :
                            i \in 1..(Len(path) + 1)} :
            (\A k \in DOMAIN other : other[k] # "/") => Len(other) <= Len(seg)

\* C6: with explicit paths, problems() returns one Problem per path, in
\* order, titled by the final segment, whatever the catalog is, also when
\* the catalog file is missing or malformed.
C6_ExplicitIgnoresCatalog ==
    (pc \in {"returned", "raised"} /\ problemPaths # <<>>) =>
        /\ pc = "returned"
        /\ result = [i \in DOMAIN problemPaths |->
                        [path |-> problemPaths[i],
                         title |-> FinalSegment(problemPaths[i])]]

\* the catalog entries that are not disabled and pass the test, in order
CatalogSelection(Keep(_)) ==
    LET kept == SelectSeq(catalog.problems,
                          LAMBDA c : ~c.disabled /\ Keep(c))
    IN [i \in DOMAIN kept |-> [path |-> kept[i].path, title |-> kept[i].title]]

\* the path occurs somewhere in the output of git diff
OccursInDiff(c) ==
    \E i \in 1..(Len(gitDiff.out) + 1) : \E j \in 0..Len(gitDiff.out) :
        SubSeq(gitDiff.out, i, j) = c.path

\* C7: in incremental mode git diff is called exactly once and the result
\* is the catalog problems, in catalog order, that are not disabled and
\* whose path is a substring of the diff output.
C7_IncrementalSelection ==
    (pc = "returned" /\ problemPaths = <<>> /\ ~allProblems) =>
        /\ Len(diffCalls) = 1
        /\ result = CatalogSelection(OccursInDiff)

C7_Witness ==
    /\ pc = "returned"
    /\ problemPaths = <<>>
    /\ ~allProblems
    /\ Len(catalog.problems) = 2
    /\ catalog.problems[1].path = <<"c">> /\ ~catalog.problems[1].disabled
    /\ catalog.problems[2].path = <<"a">> /\ ~catalog.problems[2].disabled
    /\ gitDiff.out = <<"a", "/", "b", "/", "f", "LF">>
    /\ Len(result) = 1
    /\ result[1].path = <<"a">>

Always(c) == TRUE

\* C8: with the all flag and no explicit paths the result is every catalog
\* problem that is not disabled, once each and in catalog order, whatever
\* git diff would print and whatever the environment holds; git diff is not
\* called.
C8_AllMode ==
    (pc = "returned" /\ problemPaths = <<>> /\ allProblems) =>
        /\ diffCalls = <<>>
        /\ result = CatalogSelection(Always)

C8_Witness ==
    /\ pc = "returned"
    /\ problemPaths = <<>>
    /\ allProblems
    /\ ~gitDiff.ok
    /\ env.TRAVIS_COMMIT_RANGE # <<>>
    /\ Len(catalog.problems) = 2
    /\ catalog.problems[1].disabled
    /\ ~catalog.problems[2].disabled
    /\ Len(result) = 1

(***************************************************************************)
(* CI annotations.                                                         *)
(***************************************************************************)
\* the escape of one character
EscapedChar(c) ==
    IF c = "%" THEN <<"%", "2", "5">>
    ELSE IF c = "CR" THEN <<"%", "0", "D">>
    ELSE IF c = "LF" THEN <<"%", "0", "A">>
    ELSE <<c>>

RECURSIVE EscapedCharwise(_)
EscapedCharwise(msg) ==
    IF msg = <<>> THEN <<>>
    ELSE EscapedChar(Head(msg)) \o EscapedCharwise(Tail(msg))

RECURSIVE Unescape(_)
\* the reader's side: %25, %0D and %0A decoded from the left
Unescape(text) ==
    IF text = <<>> THEN <<>>
    ELSE IF Len(text) >= 3 /\ SubSeq(text, 1, 3) = <<"%", "2", "5">>
        THEN <<"%">> \o Unescape(SubSeq(text, 4, Len(text)))
    ELSE IF Len(text) >= 3 /\ SubSeq(text, 1, 3) = <<"%", "0", "D">>
        THEN <<"CR">> \o Unescape(SubSeq(text, 4, Len(text)))
    ELSE IF Len(text) >= 3 /\ SubSeq(text, 1, 3) = <<"%", "0", "A">>
        THEN <<"LF">> \o Unescape(SubSeq(text, 4, Len(text)))
    ELSE <<Head(text)>> \o Unescape(Tail(text))

\* C9: the printed text is the message with % as %25, carriage return as
\* %0D and line feed as %0A and every other character as it was; it holds
\* no raw carriage return or line feed; unescaping it gives the message.
C9_EscapeRoundTrip ==
    pc = "printed" =>
        LET text == annotations[1].text
        IN /\ text = EscapedCharwise(message)
           /\ \A i \in DOMAIN text : text[i] \notin {"CR", "LF"}
           /\ Unescape(text) = message

C9_Witness ==
    /\ pc = "printed"
    /\ message = <<"%", "CR", "LF">>
    /\ annotations[1].text = <<"%", "2", "5", "%", "0", "D", "%", "0", "A">>

RECURSIVE JoinLines(_)
JoinLines(msgs) ==
    IF Len(msgs) = 1 THEN msgs[1]
    ELSE msgs[1] \o <<"LF">> \o JoinLines(Tail(msgs))

RECURSIVE AnnotationsUpTo(_)
\* the annotations of the first n test entries of the report: for each
\* entry, one per file with messages, in the order the files got their
\* first message
AnnotationsUpTo(n) ==
    IF n = 0 THEN <<>>
    ELSE LET fm == EntryMessages(Current, report.tests[n])
         IN AnnotationsUpTo(n - 1) \o
            [i \in DOMAIN fm |->
                [file |-> fm[i].file,
                 text |-> EscapedCharwise(JoinLines(fm[i].messages))]]

====
